---- MODULE Spec2Model ----
(***************************************************************************)
(* A model of the date picker of lemasc/react-datepicker:                  *)
(*   src/src/DatepickerContext.ts  the state hook useDatepickerCtx         *)
(*   src/unnamed/part_000          the components that render the state    *)
(*                                 and forward the user's gestures          *)
(*                                                                         *)
(* A JavaScript Date is modelled as a record                               *)
(*   [year, month (0..11), day (1..31), tick]                              *)
(* of local calendar fields; tick is the time of day, 0 for 00:00:00.000   *)
(* and 1 for any later instant of the same day. Time zones and daylight    *)
(* saving are not modelled. The configured dates (date, minDate, maxDate)  *)
(* are calendar days, i.e. Dates at local midnight.                        *)
(***************************************************************************)
EXTENDS Integers, Sequences, FiniteSets, TLC

\* ------------------------------------------------------------------ bounds

\* The years the view anchor may be navigated to are 2024 - YearRadius ..
\* 2024 + YearRadius; handlers that would leave the window are disabled.
YearRadius == 7

Years == (2024 - YearRadius)..(2024 + YearRadius)

\* ------------------------------------------------------- calendar arithmetic

\* The leap-year test without the century rules.
isLeapYear_EveryFourth(year) == year % 4 = 0

isLeapYear(year) ==
    (year % 4 = 0 /\ year % 100 # 0) \/ year % 400 = 0

daysInMonth(month, year) ==
    CASE month \in {0, 2, 4, 6, 7, 9, 11} -> 31
      [] month = 1 -> IF isLeapYear(year) THEN 29 ELSE 28
      [] OTHER -> 30

\* ------------------------------------------------ the JavaScript Date object

\* Length of month m (0..11) of year y in the Date object's own calendar.
DateMonthLength(y, m) ==
    IF m = 1
    THEN IF (y % 4 = 0 /\ y % 100 # 0) \/ y % 400 = 0 THEN 29 ELSE 28
    ELSE IF m \in {3, 5, 8, 10} THEN 30 ELSE 31

\* Day-of-month overflow and underflow: day 31 of a 30-day month is day 1 of
\* the next one, day 0 is the last day of the previous month.
RECURSIVE CarryDay(_, _, _, _)
CarryDay(y, m, d, t) ==
    IF d < 1
    THEN LET pm == IF m = 0 THEN 11 ELSE m - 1
             py == IF m = 0 THEN y - 1 ELSE y
         IN  CarryDay(py, pm, d + DateMonthLength(py, pm), t)
    ELSE IF d > DateMonthLength(y, m)
    THEN LET nm == IF m = 11 THEN 0 ELSE m + 1
             ny == IF m = 11 THEN y + 1 ELSE y
         IN  CarryDay(ny, nm, d - DateMonthLength(y, m), t)
    ELSE [year |-> y, month |-> m, day |-> d, tick |-> t]

\* The Date with the given, possibly out-of-range, month and day fields.
MakeDate(y, m, d, t) == CarryDay(y + (m \div 12), m % 12, d, t)

\* new Date(y, m, d): local midnight of that day.
NewDate(y, m, d) == MakeDate(y, m, d, 0)

setFullYear(dt, y) == MakeDate(y, dt.month, dt.day, dt.tick)
setMonth(dt, m) == MakeDate(dt.year, m, dt.day, dt.tick)
setDate(dt, d) == MakeDate(dt.year, dt.month, d, dt.tick)

\* a < b on Dates (comparison of the time values)
DateLess(a, b) ==
    \/ a.year < b.year
    \/ a.year = b.year /\ a.month < b.month
    \/ a.year = b.year /\ a.month = b.month /\ a.day < b.day
    \/ a.year = b.year /\ a.month = b.month /\ a.day = b.day /\ a.tick < b.tick

\* ------------------------------------------------------------ the inputs

Day(y, m, d) == [year |-> y, month |-> m, day |-> d, tick |-> 0]

\* config.date, the host's selected date
Dates == {Day(2023, 2, 10), Day(2024, 3, 25)}

\* config.minDate and config.maxDate; <<>> is an absent bound, <<d>> the
\* bound d. Every range has minDate <= maxDate.
Ranges ==
    { [min |-> <<>>,               max |-> <<>>],
      [min |-> <<Day(2024, 0, 1)>>,  max |-> <<Day(2024, 11, 31)>>],
      [min |-> <<Day(2024, 3, 20)>>, max |-> <<Day(2024, 4, 10)>>],
      [min |-> <<Day(2024, 3, 20)>>, max |-> <<>>],
      [min |-> <<>>,               max |-> <<Day(2024, 4, 10)>>] }

\* The readings of the clock that new Date() may return: the last day of a
\* long month and a mid-month day, both later than midnight.
Nows ==
    { [year |-> 2024, month |-> 0, day |-> 31, tick |-> 1],
      [year |-> 2024, month |-> 2, day |-> 15, tick |-> 1] }

\* ------------------------------------------------------------------ state

VARIABLES
    date,       \* config.date
    minDate,    \* config.minDate
    maxDate,    \* config.maxDate
    monthYear,  \* the view anchor, [month, year]
    view,       \* "date", "month" or "year"
    isVisible,  \* whether the popup is open
    now,        \* the clock read by new Date() in the latest render
    listeners,  \* this instance's mousedown listeners on the document
    mounted,    \* whether the component is mounted
    emitted,    \* the onChange calls made by the latest handler
    lastOp,     \* the latest handler, [op, arg]; arg is 0 when it takes none
    prev,       \* the view anchor before the latest handler
    pressed,    \* whether the handler before the latest one was the outside
                \* pointer-down that closed the popup
    widgets,    \* the instances of a page with several date pickers
    registry    \* the mousedown listeners of that page's document

vars == <<date, minDate, maxDate, monthYear, view, isVisible, now,
          listeners, mounted, emitted, lastOp, prev, pressed,
          widgets, registry>>

\* The page of several instances is left alone by the handlers of the one
\* instance modelled in detail.
page == <<widgets, registry>>

config == <<date, minDate, maxDate>>

\* ---------------------------------------------------------------- isValid

\* isValidAt with the year branch left out: a year is judged by the date
\* built for it, like a month.
isValidAt_NoYearBranch(d, v, mn, mx, nw) ==
    LET month == IF "month" \in DOMAIN d THEN d.month ELSE 12
        day == IF "day" \in DOMAIN d /\ d.day # 0
               THEN d.day
               ELSE daysInMonth(month, d.year)
        d1 == setFullYear(nw, d.year)
        d2 == setMonth(d1, month)
        d3 == setDate(d2, day)
        d4 == IF v # "date" THEN setMonth(d3, month - 1) ELSE d3
        d5 == setDate(d4, day - 1)
    IN  /\ ~(mx # <<>> /\ DateLess(mx[1], d5))
        /\ ~(mn # <<>> /\ DateLess(d5, mn[1]))

\* isValid(d) as it evaluates with view v, bounds mn and mx and clock nw.
\* d is a record with the field year and optionally month and day.
isValidAt(d, v, mn, mx, nw) ==
    LET month == IF "month" \in DOMAIN d THEN d.month ELSE 12
        day == IF "day" \in DOMAIN d /\ d.day # 0
               THEN d.day
               ELSE daysInMonth(month, d.year)
        d1 == setFullYear(nw, d.year)
        d2 == setMonth(d1, month)
        d3 == setDate(d2, day)
        d4 == IF v # "date" THEN setMonth(d3, month - 1) ELSE d3
    IN  IF v = "year"
        THEN /\ ~(mn # <<>> /\ mn[1].year > d.year)
             /\ ~(mx # <<>> /\ mx[1].year < d.year)
        ELSE LET d5 == setDate(d4, day - 1)
             IN  /\ ~(mx # <<>> /\ DateLess(mx[1], d5))
                 /\ ~(mn # <<>> /\ DateLess(d5, mn[1]))

isValid(d) == isValidAt(d, view, minDate, maxDate, now)

\* -------------------------------------------------------------- isSelected

\* isSelected without the month override of the Month view: the month check
\* stays the comparison of the anchor's month with the selected date's.
isSelectedAt_AnchorMonth(d, v, my, dt) ==
    LET dateCheck == IF v # "date" THEN TRUE ELSE d = dt.day
        monthCheck == IF v = "year" THEN TRUE ELSE my.month = dt.month
        yearCheck == IF v = "year" THEN d = dt.year ELSE my.year = dt.year
    IN  dateCheck /\ monthCheck /\ yearCheck

\* isSelected(d) as it evaluates with view v, anchor my and selected date dt.
isSelectedAt(d, v, my, dt) ==
    LET dateCheck == IF v # "date" THEN TRUE ELSE d = dt.day
        monthCheck == IF v = "year" THEN TRUE
                      ELSE IF v # "date" THEN d = dt.month
                      ELSE my.month = dt.month
        yearCheck == IF v = "year" THEN d = dt.year ELSE my.year = dt.year
    IN  dateCheck /\ monthCheck /\ yearCheck

isSelected(d) == isSelectedAt(d, view, monthYear, date)

\* ------------------------------------------------------- what is rendered

\* The popup's root node, popupNode.current, exists while the popup shows.
popupNode == isVisible

\* The cells of each grid that carry a click handler.
\* The Date grid attaching the click handler to every cell.
DateCell_Unchecked(i) ==
    i \in 1..daysInMonth(monthYear.month, monthYear.year)

DateCell(i) ==
    /\ i \in 1..daysInMonth(monthYear.month, monthYear.year)
    /\ isValid([day |-> i, month |-> monthYear.month, year |-> monthYear.year])

MonthCell(index) ==
    /\ index \in 0..11
    /\ isValid([month |-> index, year |-> monthYear.year])

\* The years of the Year view's page for the anchor year: minYear up to,
\* not including, maxYear.
YearPage(year) == (year - 6)..(year + 6 - 1)

YearCell(i) ==
    /\ i \in YearPage(monthYear.year)
    /\ isValid([year |-> i])

\* Which selection component the calendar shows.
Shows(v) == mounted /\ isVisible /\ view = v

\* ------------------------------------------------- the effect on isVisible

\* The effect runs after a render in which isVisible changed: the previous
\* effect's cleanup removes its listener, and when the popup became visible
\* the anchor is set to the selected date and a new listener is added.
\* The effect without its setMonthYear call.
EffectMonthYear_NoReset(was, is, my) == my

EffectMonthYear(was, is, my) ==
    IF was # is /\ is
    THEN [month |-> date.month, year |-> date.year]
    ELSE my

\* The effect without its cleanup function.
EffectListeners_NoCleanup(was, is, n) ==
    IF was = is THEN n ELSE IF is THEN n + 1 ELSE n

EffectListeners(was, is, n) ==
    IF was = is
    THEN n
    ELSE LET cleaned == IF was THEN n - 1 ELSE n
         IN  IF is THEN cleaned + 1 ELSE cleaned

\* The render that follows a handler reads the clock again.
Render == now' \in { n \in Nows : ~DateLess(n, now) }

\* ------------------------------------------------------- the state updaters

\* nextMonth wrapping one month late (> instead of >=).
NextMonthState_LateWrap(state) ==
    IF state.month > 11
    THEN [month |-> 0, year |-> state.year + 1]
    ELSE [month |-> state.month + 1, year |-> state.year]

NextMonthState(state) ==
    IF state.month >= 11
    THEN [month |-> 0, year |-> state.year + 1]
    ELSE [month |-> state.month + 1, year |-> state.year]

\* prevMonth wrapping one month late (< instead of <=).
PrevMonthState_LateWrap(state) ==
    IF state.month < 0
    THEN [month |-> 11, year |-> state.year - 1]
    ELSE [month |-> state.month - 1, year |-> state.year]

PrevMonthState(state) ==
    IF state.month <= 0
    THEN [month |-> 11, year |-> state.year - 1]
    ELSE [month |-> state.month - 1, year |-> state.year]

NextYearState(state) == [state EXCEPT !.year = state.year + 1]
PrevYearState(state) == [state EXCEPT !.year = state.year - 1]
\* nextDecade moving by ten years.
NextDecadeState_TenYears(state) == [state EXCEPT !.year = state.year + 10]

NextDecadeState(state) == [state EXCEPT !.year = state.year + 12]
PrevDecadeState(state) == [state EXCEPT !.year = state.year - 12]
SelectMonthState(state, m) == [state EXCEPT !.month = m]
\* selectYear without the spread of the previous state: the month is lost.
SelectYearState_DropsMonth(state, y) == [month |-> 0, year |-> y]

SelectYearState(state, y) == [state EXCEPT !.year = y]

\* ------------------------------------------------------------------- Init

Init ==
    /\ date \in Dates
    /\ \E r \in Ranges : minDate = r.min /\ maxDate = r.max
    /\ now \in Nows
    /\ monthYear = [month |-> date.month, year |-> date.year]
    /\ view = "date"
    /\ isVisible = FALSE
    /\ listeners = 0
    /\ mounted = TRUE
    /\ emitted = <<>>
    /\ lastOp = [op |-> "mount", arg |-> 0]
    /\ prev = monthYear
    /\ pressed = FALSE
    /\ widgets = <<>>
    /\ registry = <<>>

\* --------------------------------------------------------------- handlers

\* What every handler records: its name and argument, the anchor it found,
\* the onChange calls it made; the render that follows it.
Handled(op, arg, out) ==
    /\ lastOp' = [op |-> op, arg |-> arg]
    /\ prev' = monthYear
    /\ pressed' = (lastOp.op = "mouseDownOutside")
    /\ emitted' = out
    /\ Render
    /\ UNCHANGED <<config, mounted, page>>

\* setVisible(v) and setView(w), and the effect that follows.
SetVisible(v, w) ==
    /\ isVisible' = v
    /\ view' = w
    /\ monthYear' = EffectMonthYear(isVisible, v, monthYear)
    /\ listeners' = EffectListeners(isVisible, v, listeners)

\* setMonthYear(next) and setView(w).
SetMonthYear(next, w) ==
    /\ next.year \in Years
    /\ monthYear' = next
    /\ view' = w
    /\ UNCHANGED <<isVisible, listeners>>

showCalendar ==
    /\ mounted
    /\ SetVisible(TRUE, view)
    /\ Handled("showCalendar", 0, <<>>)

\* toggleCalendar as a close button: it never opens the popup.
toggleCalendar_HideOnly ==
    /\ mounted
    /\ SetVisible(FALSE, view)
    /\ Handled("toggleCalendar", 0, <<>>)

toggleCalendar ==
    /\ mounted
    /\ SetVisible(~isVisible, view)
    /\ Handled("toggleCalendar", 0, <<>>)

\* The listener without the contains() test: every pointer-down closes.
mouseDownListener_AnyTarget(target) ==
    /\ mounted
    /\ listeners > 0
    /\ IF popupNode
       THEN SetVisible(FALSE, "date") /\ Handled("mouseDownOutside", 0, <<>>)
       ELSE SetVisible(isVisible, view) /\ Handled("mouseDownInside", 0, <<>>)

mouseDownListener(target) ==
    /\ mounted
    /\ listeners > 0
    /\ IF popupNode /\ target = "outside"
       THEN SetVisible(FALSE, "date") /\ Handled("mouseDownOutside", 0, <<>>)
       ELSE SetVisible(isVisible, view) /\ Handled("mouseDownInside", 0, <<>>)

\* selectDate building the date from the selected date's month and year
\* instead of the anchor's.
selectDate_FromSelected(d) ==
    /\ Shows("date")
    /\ DateCell(d)
    /\ SetVisible(FALSE, view)
    /\ Handled("selectDate", d, <<NewDate(date.year, date.month, d)>>)

selectDate(d) ==
    /\ Shows("date")
    /\ DateCell(d)
    /\ SetVisible(FALSE, view)
    /\ Handled("selectDate", d, <<NewDate(monthYear.year, monthYear.month, d)>>)

selectMonth(m) ==
    /\ Shows("month")
    /\ MonthCell(m)
    /\ SetMonthYear(SelectMonthState(monthYear, m), "date")
    /\ Handled("selectMonth", m, <<>>)

selectYear(y) ==
    /\ Shows("year")
    /\ YearCell(y)
    /\ SetMonthYear(SelectYearState(monthYear, y), "month")
    /\ Handled("selectYear", y, <<>>)

viewMonths ==
    /\ Shows("date")
    /\ SetMonthYear(monthYear, "month")
    /\ Handled("viewMonths", 0, <<>>)

viewYears ==
    /\ Shows("date") \/ Shows("month")
    /\ SetMonthYear(monthYear, "year")
    /\ Handled("viewYears", 0, <<>>)

\* nextMonth refusing to enter a month without a valid day.
nextMonth_Blocked ==
    /\ Shows("date")
    /\ \E i \in 1..31 :
        /\ i <= daysInMonth(NextMonthState(monthYear).month, NextMonthState(monthYear).year)
        /\ isValid([day |-> i, month |-> NextMonthState(monthYear).month,
                    year |-> NextMonthState(monthYear).year])
    /\ SetMonthYear(NextMonthState(monthYear), view)
    /\ Handled("nextMonth", 0, <<>>)

nextMonth ==
    /\ Shows("date")
    /\ SetMonthYear(NextMonthState(monthYear), view)
    /\ Handled("nextMonth", 0, <<>>)

prevMonth ==
    /\ Shows("date")
    /\ SetMonthYear(PrevMonthState(monthYear), view)
    /\ Handled("prevMonth", 0, <<>>)

nextYear ==
    /\ Shows("month")
    /\ SetMonthYear(NextYearState(monthYear), view)
    /\ Handled("nextYear", 0, <<>>)

prevYear ==
    /\ Shows("month")
    /\ SetMonthYear(PrevYearState(monthYear), view)
    /\ Handled("prevYear", 0, <<>>)

nextDecade ==
    /\ Shows("year")
    /\ SetMonthYear(NextDecadeState(monthYear), view)
    /\ Handled("nextDecade", 0, <<>>)

prevDecade ==
    /\ Shows("year")
    /\ SetMonthYear(PrevDecadeState(monthYear), view)
    /\ Handled("prevDecade", 0, <<>>)

\* The component is torn down: the effect's cleanup runs.
unmount ==
    /\ mounted
    /\ mounted' = FALSE
    /\ listeners' = EffectListeners(isVisible, FALSE, listeners)
    /\ lastOp' = [op |-> "unmount", arg |-> 0]
    /\ prev' = monthYear
    /\ pressed' = (lastOp.op = "mouseDownOutside")
    /\ emitted' = <<>>
    /\ UNCHANGED <<config, monthYear, view, isVisible, now, page>>

Next ==
    \/ showCalendar
    \/ toggleCalendar
    \/ \E target \in {"inside", "outside"} : mouseDownListener(target)
    \/ \E d \in 1..31 : selectDate(d)
    \/ \E m \in 0..11 : selectMonth(m)
    \/ \E y \in Years : selectYear(y)
    \/ viewMonths
    \/ viewYears
    \/ nextMonth
    \/ prevMonth
    \/ nextYear
    \/ prevYear
    \/ nextDecade
    \/ prevDecade
    \/ unmount

Spec == Init /\ [][Next]_vars

\* ------------------------------------------- several instances on one page

\* Each instance runs its own copy of the hook; all of them register their
\* dismissal listeners on the one document. A listener is a function
\* object: each run of an instance's effect creates a new one, told apart
\* here by its owner and the number of the effect run that created it.
NumInstances == 2
MaxEffectRuns == 5
Instances == 1..NumInstances

\* document.addEventListener("mousedown", l): a listener already in the list
\* is not added a second time.
addEventListener(reg, l) ==
    IF \E k \in 1..Len(reg) : reg[k] = l THEN reg ELSE Append(reg, l)

\* removeEventListener taken for a reset of the document's listener list.
removeEventListener_All(reg, l) == <<>>

\* document.removeEventListener("mousedown", l): removes that function only.
removeEventListener(reg, l) == SelectSeq(reg, LAMBDA x : x # l)

\* The mousedownListener created by the latest effect run of instance i.
ListenerOf(i, w) == [owner |-> i, run |-> w.runs]

\* An instance after its first render: hidden, in Date view, its effect run
\* once without registering anything.
InitialWidget == [mounted |-> TRUE, isVisible |-> FALSE, view |-> "date", runs |-> 1]

\* The effect of instance i with dependency isVisible, w being the instance
\* as the handler leaves it and was the visibility before: the cleanup of the
\* previous run removes that run's listener, the new run registers its own
\* when the popup is visible.
WidgetEffect(i, was, w) ==
    IF w.isVisible = was THEN w ELSE [w EXCEPT !.runs = w.runs + 1]

RegistryEffect(i, was, old, w, reg) ==
    IF w.isVisible = was
    THEN reg
    ELSE LET cleaned == removeEventListener(reg, ListenerOf(i, old))
         IN  IF w.isVisible
             THEN addEventListener(cleaned, ListenerOf(i, WidgetEffect(i, was, w)))
             ELSE cleaned

\* The popup node of instance i exists while the instance renders it.
popupNodeOf(i) == widgets[i].mounted /\ widgets[i].isVisible

\* Instance i handles an event that leaves it as w.
WidgetStep(i, w, op) ==
    /\ w.isVisible # widgets[i].isVisible => widgets[i].runs < MaxEffectRuns
    /\ widgets' = [widgets EXCEPT ![i] = WidgetEffect(i, widgets[i].isVisible, w)]
    /\ registry' = RegistryEffect(i, widgets[i].isVisible, widgets[i], w, registry)
    /\ lastOp' = [op |-> op, arg |-> i]
    /\ UNCHANGED <<config, monthYear, view, isVisible, now, listeners,
                   mounted, emitted, prev, pressed>>

showCalendarOf(i) ==
    /\ widgets[i].mounted
    /\ WidgetStep(i, [widgets[i] EXCEPT !.isVisible = TRUE], "showCalendar")

toggleCalendarOf(i) ==
    /\ widgets[i].mounted
    /\ WidgetStep(i, [widgets[i] EXCEPT !.isVisible = ~widgets[i].isVisible],
                  "toggleCalendar")

\* A valid day cell of instance i is clicked: the popup closes, the view is
\* left as it is.
selectDateOf(i) ==
    /\ popupNodeOf(i)
    /\ widgets[i].view = "date"
    /\ WidgetStep(i, [widgets[i] EXCEPT !.isVisible = FALSE], "selectDate")

viewMonthsOf(i) ==
    /\ popupNodeOf(i)
    /\ widgets[i].view = "date"
    /\ WidgetStep(i, [widgets[i] EXCEPT !.view = "month"], "viewMonths")

\* Instance i is torn down: the cleanup of its effect runs.
unmountOf(i) ==
    /\ widgets[i].mounted
    /\ widgets' = [widgets EXCEPT ![i].mounted = FALSE]
    /\ registry' = removeEventListener(registry, ListenerOf(i, widgets[i]))
    /\ lastOp' = [op |-> "unmount", arg |-> i]
    /\ UNCHANGED <<config, monthYear, view, isVisible, now, listeners,
                   mounted, emitted, prev, pressed>>

\* The instances whose registered listener, called with this target, finds
\* its popup node and finds the target outside it. Target i is a node inside
\* the popup of instance i, target 0 any other node of the page.
Dismissed(target) ==
    {i \in Instances :
        /\ \E k \in 1..Len(registry) : registry[k].owner = i
        /\ popupNodeOf(i)
        /\ i # target}

\* The cleanups of the instances in S, each removing its own listener.
RECURSIVE Cleanups(_, _)
Cleanups(reg, S) ==
    IF S = {} THEN reg
    ELSE LET i == CHOOSE x \in S : TRUE
         IN  Cleanups(removeEventListener(reg, ListenerOf(i, widgets[i])),
                      S \ {i})

\* One pointer-down on the page: the document calls every registered
\* listener, then each instance that was told to close re-runs its effect.
mouseDown(target) ==
    /\ registry # <<>>
    /\ target # 0 => popupNodeOf(target)
    /\ \A i \in Dismissed(target) : widgets[i].runs < MaxEffectRuns
    /\ widgets' = [i \in Instances |->
                      IF i \in Dismissed(target)
                      THEN [widgets[i] EXCEPT !.isVisible = FALSE,
                                              !.view = "date",
                                              !.runs = widgets[i].runs + 1]
                      ELSE widgets[i]]
    /\ registry' = Cleanups(registry, Dismissed(target))
    /\ lastOp' = [op |-> "mouseDown", arg |-> target]
    /\ UNCHANGED <<config, monthYear, view, isVisible, now, listeners,
                   mounted, emitted, prev, pressed>>

\* The page starts with every instance mounted and hidden; the instance
\* modelled in detail stays as constructed.
InitMulti ==
    /\ date = Day(2024, 3, 25)
    /\ minDate = <<>>
    /\ maxDate = <<>>
    /\ now = [year |-> 2024, month |-> 2, day |-> 15, tick |-> 1]
    /\ monthYear = [month |-> date.month, year |-> date.year]
    /\ view = "date"
    /\ isVisible = FALSE
    /\ listeners = 0
    /\ mounted = TRUE
    /\ emitted = <<>>
    /\ lastOp = [op |-> "mount", arg |-> 0]
    /\ prev = monthYear
    /\ pressed = FALSE
    /\ widgets = [i \in Instances |-> InitialWidget]
    /\ registry = <<>>

NextMulti ==
    \/ \E i \in Instances : showCalendarOf(i)
    \/ \E i \in Instances : toggleCalendarOf(i)
    \/ \E i \in Instances : selectDateOf(i)
    \/ \E i \in Instances : viewMonthsOf(i)
    \/ \E i \in Instances : unmountOf(i)
    \/ \E target \in {0} \cup Instances : mouseDown(target)

SpecMulti == InitMulti /\ [][NextMulti]_vars

\* ----------------------------------------------------------------- claims

\* The anchor of the selected date.
DateAnchor == [month |-> date.month, year |-> date.year]

\* The calendar day c lies within [minDate, maxDate], an absent bound
\* bounding nothing.
InRange(c) ==
    /\ minDate = <<>> \/ ~DateLess(c, minDate[1])
    /\ maxDate = <<>> \/ ~DateLess(maxDate[1], c)

\* C1: in Date view, every day of the displayed month is valid if and only
\* if it lies within [minDate, maxDate] inclusive.
C1_DayValidIffInRange ==
    Shows("date") =>
        \A i \in 1..daysInMonth(monthYear.month, monthYear.year) :
            isValid([day |-> i, month |-> monthYear.month, year |-> monthYear.year])
                <=> InRange(Day(monthYear.year, monthYear.month, i))

\* C2: in Month view, every month of the displayed year is valid if and
\* only if at least one of its days lies within [minDate, maxDate].
C2_MonthValidIffSomeDayInRange ==
    Shows("month") =>
        \A m \in 0..11 :
            isValid([month |-> m, year |-> monthYear.year])
                <=> \E i \in 1..daysInMonth(m, monthYear.year) :
                        InRange(Day(monthYear.year, m, i))

\* C3: in Year view, a year y is valid if and only if minDate is absent or
\* its year is <= y, and maxDate is absent or its year is >= y, whatever
\* the months and days of minDate and maxDate.
C3_YearValidIffYearInRange ==
    Shows("year") =>
        \A y \in (monthYear.year - 6)..(monthYear.year + 5) :
            isValid([year |-> y])
                <=> /\ minDate = <<>> \/ minDate[1].year <= y
                    /\ maxDate = <<>> \/ maxDate[1].year >= y

\* C3 witness: the Year view shows a page with a year before minDate's
\* year, which is invalid, and minDate's year, which is valid although
\* the range ends inside it.
C3_Witness ==
    /\ Shows("year")
    /\ minDate = <<Day(2024, 3, 20)>>
    /\ maxDate = <<Day(2024, 4, 10)>>
    /\ monthYear.year = 2023
    /\ ~isValid([year |-> 2023])
    /\ isValid([year |-> 2024])
    /\ ~isValid([year |-> 2025])

\* C4: whenever the popup is not visible, the view mode is Date.
C4_HiddenIsDateView == ~isVisible => view = "date"

\* C5: every step that makes the popup visible leaves the anchor at the
\* selected date's month and year.
C5_OpenResetsAnchor ==
    [][(~isVisible /\ isVisible') => monthYear' = DateAnchor']_vars

\* C5 witness: the popup was opened by toggleCalendar while the anchor was
\* elsewhere, and the anchor is now the selected date's.
C5_Witness ==
    /\ lastOp.op = "toggleCalendar"
    /\ isVisible
    /\ prev # DateAnchor
    /\ monthYear = DateAnchor

\* C6: every date passed to onChange lies within [minDate, maxDate].
C6_EmittedInRange == \A k \in 1..Len(emitted) : InRange(emitted[k])

\* C7: selectDate(day) calls onChange exactly once, with the day `day` of
\* the anchor's month and year, and leaves the popup hidden in Date view.
C7_SelectDateEmitsAnchorDay ==
    lastOp.op = "selectDate" =>
        /\ emitted = <<Day(prev.year, prev.month, lastOp.arg)>>
        /\ ~isVisible
        /\ view = "date"

\* C7 witness: from the selected date 2023-03-10, the year 2024 and the
\* month January were picked and day 5 was clicked.
C7_Witness ==
    /\ date = Day(2023, 2, 10)
    /\ lastOp = [op |-> "selectDate", arg |-> 5]
    /\ emitted = <<Day(2024, 0, 5)>>
    /\ ~isVisible

\* C8: selectYear(y) sets the anchor's year to y, keeps its month and shows
\* the Month view; selectMonth(m) sets the anchor's month to m, keeps its
\* year and shows the Date view; both leave the popup visible and call
\* onChange never.
C8_DrillDown ==
    /\ lastOp.op = "selectYear" =>
        /\ monthYear = [month |-> prev.month, year |-> lastOp.arg]
        /\ view = "month"
        /\ isVisible
        /\ emitted = <<>>
    /\ lastOp.op = "selectMonth" =>
        /\ monthYear = [month |-> lastOp.arg, year |-> prev.year]
        /\ view = "date"
        /\ isVisible
        /\ emitted = <<>>

\* C8 witness: a month other than the displayed one was picked in a year
\* other than the selected date's.
C8_Witness ==
    /\ lastOp.op = "selectMonth"
    /\ monthYear.month # prev.month
    /\ monthYear.month # date.month
    /\ monthYear.year # date.year
    /\ view = "date"

\* C9: from every anchor, nextMonth then prevMonth, prevMonth then
\* nextMonth, nextYear then prevYear and nextDecade then prevDecade lead
\* back to the anchor; in particular the step that undoes the latest
\* navigation leads to the anchor before it.
C9_NavigationRoundTrip ==
    /\ PrevMonthState(NextMonthState(monthYear)) = monthYear
    /\ NextMonthState(PrevMonthState(monthYear)) = monthYear
    /\ PrevYearState(NextYearState(monthYear)) = monthYear
    /\ PrevDecadeState(NextDecadeState(monthYear)) = monthYear
    /\ lastOp.op = "nextMonth" => PrevMonthState(monthYear) = prev
    /\ lastOp.op = "prevMonth" => NextMonthState(monthYear) = prev
    /\ lastOp.op = "nextYear" => PrevYearState(monthYear) = prev
    /\ lastOp.op = "nextDecade" => PrevDecadeState(monthYear) = prev

\* C9 witness: nextMonth has just carried December into January of the
\* next year.
C9_Witness ==
    /\ lastOp.op = "nextMonth"
    /\ prev.month = 11
    /\ monthYear.year = prev.year + 1

\* C10: the anchor's month is always in 0..11; nextMonth at month 11 leads
\* to month 0 of the next year and prevMonth at month 0 to month 11 of the
\* previous year.
C10_MonthInRange ==
    /\ monthYear.month \in 0..11
    /\ (lastOp.op = "nextMonth" /\ prev.month = 11) =>
            monthYear = [month |-> 0, year |-> prev.year + 1]
    /\ (lastOp.op = "prevMonth" /\ prev.month = 0) =>
            monthYear = [month |-> 11, year |-> prev.year - 1]

\* C10 witness: prevMonth has just carried January into December of the
\* previous year.
C10_Witness ==
    /\ lastOp.op = "prevMonth"
    /\ prev.month = 0
    /\ monthYear.month = 11


\* The values isSelected is asked about: days, month indices and the years
\* of the displayed year page.
SelectedProbes == (0..31) \cup ((monthYear.year - 6)..(monthYear.year + 5)) \cup {date.year}

\* C11: isSelected(value) holds in Date view iff value is the selected
\* date's day and the anchor is the selected date's month and year; in
\* Month view iff value is the selected date's month and the anchor's year
\* is the selected date's; in Year view iff value is the selected date's
\* year.
C11_IsSelectedByView ==
    \A value \in SelectedProbes :
        /\ Shows("date") =>
            (isSelected(value) <=>
                /\ value = date.day
                /\ monthYear.month = date.month
                /\ monthYear.year = date.year)
        /\ Shows("month") =>
            (isSelected(value) <=>
                /\ value = date.month
                /\ monthYear.year = date.year)
        /\ Shows("year") =>
            (isSelected(value) <=> value = date.year)

\* C11 witness: the Month view of the selected date's year, entered from
\* another month of it, marks the selected date's month.
C11_Witness ==
    /\ Shows("month")
    /\ monthYear.year = date.year
    /\ monthYear.month # date.month
    /\ isSelected(date.month)
    /\ ~isSelected(monthYear.month)


\* C12: after every handler the instance has exactly one mousedown listener
\* on the document if it is mounted and its popup is visible, and none
\* otherwise.
C12_ListenerLifecycle ==
    listeners = IF mounted /\ isVisible THEN 1 ELSE 0

\* C12 witness: the instance was torn down while its popup was visible, in
\* a view other than Date, and no listener is left.
C12_Witness ==
    /\ ~mounted
    /\ isVisible
    /\ view # "date"
    /\ listeners = 0


\* C13: a pointer-down inside the popup changes neither the visibility nor
\* the view; a pointer-down outside the popup while it is visible hides it
\* and sets the view to Date, leaves the anchor and the selected date as
\* they are and calls onChange never.
C13_PointerDown ==
    [][ /\ mouseDownListener("inside") =>
            /\ isVisible' = isVisible
            /\ view' = view
        /\ (mouseDownListener("outside") /\ isVisible) =>
            /\ ~isVisible'
            /\ view' = "date"
            /\ monthYear' = monthYear
            /\ date' = date
            /\ emitted' = <<>> ]_vars

\* C13 witness: an outside pointer-down has closed the popup while the
\* anchor was away from the selected date's month, and the anchor stayed.
C13_Witness ==
    /\ lastOp.op = "mouseDownOutside"
    /\ ~isVisible
    /\ view = "date"
    /\ prev = monthYear
    /\ monthYear # DateAnchor
    /\ emitted = <<>>


\* The anchor a navigation handler leads to.
NavTarget(op, state) ==
    CASE op = "nextMonth" -> NextMonthState(state)
      [] op = "prevMonth" -> PrevMonthState(state)
      [] op = "nextYear" -> NextYearState(state)
      [] op = "prevYear" -> PrevYearState(state)
      [] op = "nextDecade" -> NextDecadeState(state)
      [] op = "prevDecade" -> PrevDecadeState(state)

NavOps == {"nextMonth", "prevMonth", "nextYear", "prevYear", "nextDecade", "prevDecade"}

\* Every navigation button of the displayed view works, whatever the range
\* (inside the window of years of the model).
NavigationEnabled ==
    /\ (Shows("date") /\ NextMonthState(monthYear).year \in Years) => ENABLED nextMonth
    /\ (Shows("date") /\ PrevMonthState(monthYear).year \in Years) => ENABLED prevMonth
    /\ (Shows("month") /\ NextYearState(monthYear).year \in Years) => ENABLED nextYear
    /\ (Shows("month") /\ PrevYearState(monthYear).year \in Years) => ENABLED prevYear
    /\ (Shows("year") /\ NextDecadeState(monthYear).year \in Years) => ENABLED nextDecade
    /\ (Shows("year") /\ PrevDecadeState(monthYear).year \in Years) => ENABLED prevDecade

\* C14: the six navigation handlers are never blocked by the range; each
\* moves the anchor by its step and leaves the view, the visibility and the
\* selected date as they are, calling onChange never; viewMonths and
\* viewYears change the view only.
C14_NavigationFrame ==
    /\ []NavigationEnabled
    /\ [][ /\ lastOp'.op \in NavOps =>
               /\ monthYear' = NavTarget(lastOp'.op, monthYear)
               /\ view' = view
               /\ isVisible' = isVisible
               /\ date' = date
               /\ emitted' = <<>>
           /\ lastOp'.op \in {"viewMonths", "viewYears"} =>
               /\ view' = (IF lastOp'.op = "viewMonths" THEN "month" ELSE "year")
               /\ monthYear' = monthYear
               /\ isVisible' = isVisible
               /\ date' = date
               /\ emitted' = <<>> ]_vars

\* C14 witness: nextMonth has entered a month that begins after maxDate.
C14_Witness ==
    /\ lastOp.op = "nextMonth"
    /\ Shows("date")
    /\ maxDate # <<>>
    /\ DateLess(maxDate[1], Day(monthYear.year, monthYear.month, 1))
    /\ DateLess(maxDate[1], Day(prev.year, prev.month, 1))


\* The Gregorian length of month m (0..11) of year y.
GregorianLength(m, y) ==
    IF m = 1
    THEN IF (y % 4 = 0 /\ y % 100 # 0) \/ y % 400 = 0 THEN 29 ELSE 28
    ELSE IF m \in {3, 5, 8, 10} THEN 30 ELSE 31

\* The years daysInMonth is examined for: the years of the model and the
\* century years around them.
LengthYears == Years \cup {1900, 2000, 2100} \cup {monthYear.year}

\* The listeners of instance j in a listener list.
ListenersOf(reg, j) == SelectSeq(reg, LAMBDA l : l.owner = j)

\* Instance i handles an event of its own.
ActsAlone(i) ==
    \/ showCalendarOf(i)
    \/ toggleCalendarOf(i)
    \/ selectDateOf(i)
    \/ viewMonthsOf(i)
    \/ unmountOf(i)

\* C15: on a page with several instances, each instance has exactly its own
\* latest listener on the document while it is mounted and visible and none
\* otherwise; an event handled by one instance leaves the other instances
\* and their listeners as they were; and a pointer-down closes exactly the
\* visible instances whose popup does not contain the target, each returning
\* to Date view.
C15_InstancesIndependent ==
    /\ [](\A j \in Instances :
            ListenersOf(registry, j) =
                IF popupNodeOf(j) THEN <<ListenerOf(j, widgets[j])>> ELSE <<>>)
    /\ [][\A i \in Instances : ActsAlone(i) =>
            \A j \in Instances \ {i} :
                /\ widgets'[j] = widgets[j]
                /\ ListenersOf(registry', j) = ListenersOf(registry, j)]_vars
    /\ [][\A target \in {0} \cup Instances : mouseDown(target) =>
            \A j \in Instances :
                /\ widgets'[j].mounted = widgets[j].mounted
                /\ popupNodeOf(j)' = (popupNodeOf(j) /\ j = target)
                /\ popupNodeOf(j) /\ j # target => widgets'[j].view = "date"
                /\ ~(popupNodeOf(j) /\ j # target) => widgets'[j] = widgets[j]]_vars

\* C15 witness: a pointer-down inside the popup of instance 1 closed
\* instance 2 and left instance 1 open in its Month view, with its listener
\* as the only one on the document.
C15_Witness ==
    /\ lastOp = [op |-> "mouseDown", arg |-> 1]
    /\ popupNodeOf(1)
    /\ widgets[1].view = "month"
    /\ widgets[2].mounted
    /\ ~widgets[2].isVisible
    /\ widgets[2].runs = 3
    /\ widgets[2].view = "date"
    /\ registry = <<ListenerOf(1, widgets[1])>>

\* C16: for every year and every month 0..11, daysInMonth is the Gregorian
\* month length: 29 for February of a leap year, 28 for any other
\* February, and 30 or 31, whatever the year, for the other months.
C16_DaysInMonthGregorian ==
    \A y \in LengthYears : \A m \in 0..11 :
        /\ daysInMonth(m, y) = GregorianLength(m, y)
        /\ m # 1 => daysInMonth(m, y) = daysInMonth(m, 2024)

\* C16 witness: the 29th cell of February 2024 was rendered and clicked.
C16_Witness ==
    /\ lastOp = [op |-> "selectDate", arg |-> 29]
    /\ prev = [month |-> 1, year |-> 2024]
    /\ daysInMonth(prev.month, prev.year) = 29


\* C17: a selection handler runs only for a cell that isValid accepted in
\* the render before it: selectDate(i) only in Date view with
\* isValid({day: i, month, year}) for the anchor, selectMonth(m) only in
\* Month view with isValid({month: m, year}), selectYear(y) only in Year
\* view with isValid({year: y}).
C17_OnlyValidCellsSelect ==
    [][ /\ lastOp'.op = "selectDate" =>
            /\ Shows("date")
            /\ isValid([day |-> lastOp'.arg, month |-> monthYear.month,
                        year |-> monthYear.year])
        /\ lastOp'.op = "selectMonth" =>
            /\ Shows("month")
            /\ isValid([month |-> lastOp'.arg, year |-> monthYear.year])
        /\ lastOp'.op = "selectYear" =>
            /\ Shows("year")
            /\ isValid([year |-> lastOp'.arg]) ]_vars

\* C17 witness: a valid day was clicked in a month that also shows a day
\* isValid rejects.
C17_Witness ==
    /\ lastOp.op = "selectDate"
    /\ isValidAt([day |-> lastOp.arg, month |-> prev.month, year |-> prev.year],
                 "date", minDate, maxDate, now)
    /\ \E i \in 1..daysInMonth(prev.month, prev.year) :
           ~isValidAt([day |-> i, month |-> prev.month, year |-> prev.year],
                      "date", minDate, maxDate, now)


\* C18: the result of isValid is determined by the candidate, the view and
\* the range: for every cell of the displayed Date or Month grid it is the
\* same on any two current calendar days.
C18_IsValidIgnoresClock ==
    \A n1 \in Nows : \A n2 \in Nows :
        /\ Shows("date") =>
            \A i \in 1..daysInMonth(monthYear.month, monthYear.year) :
                isValidAt([day |-> i, month |-> monthYear.month, year |-> monthYear.year],
                          "date", minDate, maxDate, n1)
                <=> isValidAt([day |-> i, month |-> monthYear.month, year |-> monthYear.year],
                              "date", minDate, maxDate, n2)
        /\ Shows("month") =>
            \A m \in 0..11 :
                isValidAt([month |-> m, year |-> monthYear.year],
                          "month", minDate, maxDate, n1)
                <=> isValidAt([month |-> m, year |-> monthYear.year],
                              "month", minDate, maxDate, n2)


\* The pages reached from the anchor by one prevDecade, by none, and by one
\* and two nextDecade.
DecadePages ==
    << YearPage(PrevDecadeState(monthYear).year),
       YearPage(monthYear.year),
       YearPage(NextDecadeState(monthYear).year),
       YearPage(NextDecadeState(NextDecadeState(monthYear)).year) >>

\* C20: the Year page shows the 12 years anchor-6 .. anchor+5; the page
\* after nextDecade begins with the year after the last year of the page
\* before, and over consecutive pages every year is on exactly one page.
C20_YearPagesTile ==
    /\ YearPage(monthYear.year) = (monthYear.year - 6)..(monthYear.year + 5)
    /\ Cardinality(YearPage(monthYear.year)) = 12
    /\ \A k \in 1..3 :
           /\ DecadePages[k] \cap DecadePages[k + 1] = {}
           /\ \A a \in DecadePages[k] : \A b \in DecadePages[k + 1] : a < b
           /\ \E a \in DecadePages[k] : a + 1 \in DecadePages[k + 1]
    /\ \A y \in (monthYear.year - 18)..(monthYear.year + 29) :
           Cardinality({k \in 1..4 : y \in DecadePages[k]}) = 1
    /\ lastOp.op = "nextDecade" =>
           \A y \in YearPage(monthYear.year) : y - 12 \in YearPage(prev.year)

\* C20 witness: nextDecade has just turned the Year view's page.
C20_Witness ==
    /\ lastOp.op = "nextDecade"
    /\ Shows("year")
    /\ monthYear.year = prev.year + 12
    /\ YearPage(monthYear.year) \cap YearPage(prev.year) = {}


\* C19: while the popup is visible, a mouse click on the toggle button, i.e.
\* an outside pointer-down followed by toggleCalendar, leaves the popup
\* visible, in Date view, with the anchor at the selected date's month and
\* year.
C19_ClickOnToggleReopens ==
    [][ (lastOp.op = "mouseDownOutside" /\ lastOp'.op = "toggleCalendar") =>
            /\ isVisible'
            /\ view' = "date"
            /\ monthYear' = DateAnchor
            /\ listeners' = 1 ]_vars

\* C19 witness: the popup, showing another month than the selected date's,
\* was closed by the pointer-down of the click and opened
\* again by its toggleCalendar.
C19_Witness ==
    /\ lastOp.op = "toggleCalendar"
    /\ pressed
    /\ prev # DateAnchor
    /\ isVisible
    /\ view = "date"
    /\ monthYear = DateAnchor

====
